---------------------------- MODULE Spec2Model ----------------------------
(***************************************************************************)
(* The Reliability Layer of syncfit-mobile-android                         *)
(* (android/app/src/services/reliability.ts): the offline-resilient write  *)
(* pipeline.  performOperation executes a mutating request or queues it,   *)
(* syncPendingOperations drains the queue with priority order, backoff and *)
(* a retry ceiling, and the queue is written through to AsyncStorage.      *)
(*                                                                         *)
(* JavaScript runs the layer on one cooperative thread: a step of the model*)
(* is the code that runs between two suspension points (await).            *)
(***************************************************************************)
EXTENDS Integers, Sequences, FiniteSets, TLC

\* ------------------------------------------------------------------ constants
MAX_RETRY_ATTEMPTS == 5
RETRY_BACKOFF_MS == 1000
\* the literal of the rate limit in syncPendingOperations
MIN_SYNC_INTERVAL_MS == 5000

\* ------------------------------------------------------------------ bounds
\* performOperation calls per run
MaxCalls == 1
\* performOperation calls suspended at the same time
MaxInFlight == 1
\* process terminations followed by a restart
MaxRestarts == 1
\* Date.now() when the model starts (any epoch time is far above the rate limit)
StartTime == 100000

\* ------------------------------------------------------------------ values
UNDEFINED == "undefined"

Priorities == {"high", "medium", "low"}

\* priorityOrder of the sort comparator
priorityOrder(p) == CASE p = "high" -> 0 [] p = "medium" -> 1 [] p = "low" -> 2

\* Calls the application makes (services/workout.ts): endpoint, method, body,
\* priority and syncTarget as the callers pass them.
\* A body is an object: a sequence of <<key, value>> pairs.
Requests ==
  { [endpoint |-> "scheduledWorkouts.create", method |-> "POST",
     body |-> << <<"workoutId", "w1">>, <<"calendarEventId", UNDEFINED>> >>,
     priority |-> "high", syncTarget |-> "scheduledWorkouts"],
    [endpoint |-> "slotStats.record", method |-> "POST",
     body |-> << <<"completed", "true">> >>,
     priority |-> "low", syncTarget |-> UNDEFINED] }

UpdateRequest ==
  [endpoint |-> "scheduledWorkouts.update(1)", method |-> "PUT",
   body |-> << <<"status", "completed">> >>,
   priority |-> "medium", syncTarget |-> "scheduledWorkouts"]

\* What a transport call (api.post / api.put / api.delete) can come back with: an
\* ApiResponse with a status (0 when the request layer caught a network error or its
\* timeout fired), or a rejection.
Statuses == {0, 200, 299, 300, 500}

\* Whether the server can have applied a request that came back with the status: it
\* has when it answered 2xx; it may have when the 10 s timer of withTimeout fired
\* first (the timer rejects, the fetch is not aborted) or the answer was lost.
MayBeApplied(status) ==
  IF status >= 200 /\ status < 300 THEN {TRUE}
  ELSE IF status = 0 THEN {TRUE, FALSE}
  ELSE {FALSE}

TransportOutcomes ==
  { o \in [kind : {"response"}, status : Statuses, applied : BOOLEAN] :
      o.applied \in MayBeApplied(o.status) }
  \cup {[kind |-> "throw", status |-> 0, applied |-> FALSE]}

\* The success test with the lower limit left out of the range.
IsSuccessStatusExclusive(status) == status > 200 /\ status < 300

\* if (result.status >= 200 && result.status < 300)
IsSuccessStatus(status) == status >= 200 /\ status < 300

\* result.data is set by the request layer exactly when response.ok
ResponseData(o) == IF o.kind = "response" /\ IsSuccessStatus(o.status) THEN "data" ELSE UNDEFINED

\* result.error || 'Server error', or the message of the thrown error
ResponseError(o) == IF o.kind = "throw" THEN "Network error" ELSE "Server error"

\* Math.pow(2, n)
RECURSIVE Pow2(_)
Pow2(n) == IF n = 0 THEN 1 ELSE 2 * Pow2(n - 1)

\* A delay that grows with the retry count in equal steps.
backoffDelayLinear(retryCount) == RETRY_BACKOFF_MS * retryCount

\* backoffDelay = RETRY_BACKOFF_MS * Math.pow(2, operation.retryCount)
backoffDelay(retryCount) == RETRY_BACKOFF_MS * Pow2(retryCount)

\* Whether the request of a transport call that came back like this left the
\* device: it did when the server answered or applied it; when the request layer
\* reports status 0 it may have returned at its connectivity check, before it built
\* the request, and what is thrown may be thrown before the request as well.
MayBeSent(o) ==
  IF o.kind = "response" /\ o.status # 0 THEN {TRUE}
  ELSE IF o.applied THEN {TRUE}
  ELSE {TRUE, FALSE}

\* The outcomes in which the layer is told what the server did: a request that came
\* back as failed was not applied.
ToldOutcomes ==
  {o \in TransportOutcomes : o.applied = (o.status >= 200 /\ o.status < 300)}

\* ------------------------------------------------------------------ sequences
SeqRange(s) == {s[i] : i \in 1..Len(s)}

Ids(s) == {s[i].id : i \in 1..Len(s)}

RemoveAt(s, i) == SubSeq(s, 1, i - 1) \o SubSeq(s, i + 1, Len(s))

\* A comparator that reads the timestamps only.
compareTimestamps(a, b) == a.timestamp - b.timestamp

\* The comparator of the sort in syncPendingOperations: negative, zero or positive.
compare(a, b) ==
  IF priorityOrder(a.priority) # priorityOrder(b.priority)
  THEN priorityOrder(a.priority) - priorityOrder(b.priority)
  ELSE a.timestamp - b.timestamp

\* Insert op into a sorted sequence behind every element that does not compare
\* greater: elements that compare equal keep their order (Array.prototype.sort is
\* stable).
RECURSIVE InsertSorted(_, _)
InsertSorted(op, s) ==
  IF s = << >> THEN <<op>>
  ELSE IF compare(op, Head(s)) < 0 THEN <<op>> \o s
  ELSE <<Head(s)>> \o InsertSorted(op, Tail(s))

\* this.pendingOperations.sort(comparator)
RECURSIVE SortOperations(_)
SortOperations(s) ==
  IF s = << >> THEN << >>
  ELSE InsertSorted(s[Len(s)], SortOperations(SubSeq(s, 1, Len(s) - 1)))

\* ------------------------------------------------------------------ JSON
\* A serialisation that writes every key of the body, undefined values included.
StringifyBodyKeepingKeys(body) == body

\* JSON.stringify of an object leaves out the keys whose value is undefined.
RECURSIVE StringifyBody(_)
StringifyBody(body) ==
  IF body = << >> THEN << >>
  ELSE IF Head(body)[2] = UNDEFINED THEN StringifyBody(Tail(body))
  ELSE <<Head(body)>> \o StringifyBody(Tail(body))

\* JSON.parse(JSON.stringify(this.pendingOperations)): strings and integers come
\* back as they were, the order of the array is kept.
JsonRoundTrip(ops) ==
  [i \in 1..Len(ops) |-> [ops[i] EXCEPT !.body = StringifyBody(ops[i].body)]]

\* The value under PENDING_OPERATIONS_KEY: null, or the text of an array.
NullItem == [isNull |-> TRUE, ops |-> << >>]
Item(ops) == [isNull |-> FALSE, ops |-> JsonRoundTrip(ops)]

\* ------------------------------------------------------------------ state
VARIABLES
  clock,              \* Date.now()
  isOnline,           \* ReliabilityLayer.isOnline
  netState,           \* history: the last NetInfo state that a handler was run for
  pendingOperations,  \* ReliabilityLayer.pendingOperations
  syncInProgress,     \* ReliabilityLayer.syncInProgress
  lastSyncAttempt,    \* ReliabilityLayer.lastSyncAttempt
  storage,            \* AsyncStorage, the value under PENDING_OPERATIONS_KEY
  loading,            \* loadPendingOperations suspended at getItem
  fetching,           \* the initial NetInfo.fetch() not yet answered
  calls,              \* the performOperation calls under way
  nextId,             \* the number of operation ids generated so far, plus one
  pass,               \* the locals of the syncPendingOperations call that runs
  restarts,           \* process terminations so far
  transportCalls,     \* history: per operation id, the transport calls made for it
  synced,             \* history: ids whose sync attempt came back with a 2xx status
  applied,            \* history: per operation id, how often the server applied it
  saved,              \* history: the queue as it was handed to the last write that landed
  storeFailed,        \* history: a read or a write of the store has failed
  lastSync,           \* history: how the syncPendingOperations call of the last step went
  lastPassStart       \* history: Date.now() when this process last started a pass

vars == <<clock, isOnline, netState, pendingOperations, syncInProgress, lastSyncAttempt,
          storage, loading, fetching, calls, nextId, pass, restarts,
          transportCalls, synced, applied, saved, storeFailed, lastSync, lastPassStart>>

\* No state has come from NetInfo yet.
NoReport == [isConnected |-> "none", isInternetReachable |-> "none"]

\* No syncPendingOperations call is past its guards.  (sorted, log and sent are
\* history: the snapshot as it was taken, what the loop did with each operation, and
\* whether the request of the transport call that has just come back, at the delay
\* after it, left the device.)
IdlePass ==
  [pc |-> "idle", now |-> 0, operationsToProcess |-> << >>, idx |-> 0,
   successfulOperations |-> << >>, failedOperations |-> << >>,
   shared |-> FALSE, sorted |-> << >>, log |-> << >>, sent |-> TRUE]

\* The result of a call that has not got to a return statement.
NoResult ==
  [success |-> FALSE, data |-> UNDEFINED, error |-> UNDEFINED, queued |-> UNDEFINED]

NoSync == "none"

\* Operations that an earlier run of the application left in the store.
SeedIds == {101, 102, 103}
OperationIds == (1..MaxCalls) \cup SeedIds

Seed(id, req, timestamp, retryCount) ==
  [id |-> id, endpoint |-> req.endpoint, method |-> req.method,
   body |-> StringifyBody(req.body), timestamp |-> timestamp,
   retryCount |-> retryCount, priority |-> req.priority]

\* A new instance: its fields as declared, and the two requests its constructor
\* starts: loadPendingOperations reads the store, NetInfo.fetch() asks the monitor.
Constructed(stored) ==
  /\ clock = StartTime
  /\ isOnline = TRUE
  /\ netState = NoReport
  /\ pendingOperations = << >>
  /\ syncInProgress = FALSE
  /\ lastSyncAttempt = 0
  /\ storage = stored
  /\ saved = stored.ops
  /\ loading = [pending |-> TRUE, value |-> stored]
  /\ fetching = TRUE
  /\ calls = << >>
  /\ nextId = 1
  /\ pass = IdlePass
  /\ restarts = 0
  /\ transportCalls = [i \in OperationIds |-> 0]
  /\ synced = {}
  /\ applied = [i \in OperationIds |-> 0]
  /\ storeFailed = FALSE
  /\ lastSync = NoSync
  /\ lastPassStart = -1

\* ------------------------------------------------------------------ server
\* The server's count of applications after a transport call for the operation.
Applied(id, o) ==
  [applied EXCEPT ![id] = IF o.applied /\ @ < 2 THEN @ + 1 ELSE @]

\* ------------------------------------------------------------------ store
\* savePendingOperations: JSON.stringify(this.pendingOperations) is handed to
\* AsyncStorage.setItem at the call; the write either lands or throws, and the throw
\* is caught and logged.  AsyncStorage serves its requests in the order they were made.
savePendingOperations(queue, written) ==
  /\ storage' = IF written THEN Item(queue) ELSE storage
  /\ saved' = IF written THEN queue ELSE saved
  /\ storeFailed' = (storeFailed \/ ~written)

\* savePendingOperations without its catch block: a failed write is thrown on.
SaveRethrows(written) == ~written

\* Whether savePendingOperations ends by throwing: its catch block takes what
\* setItem (or JSON.stringify) throws.
savePendingOperationsThrows(written) == FALSE

\* updateLocalMirror without its catch block: a failed mirror update is thrown on.
MirrorRethrows(updated) == ~updated

\* Whether updateLocalMirror ends by throwing: its catch block takes what the
\* mirror throws.
updateLocalMirrorThrows(updated) == FALSE

\* ------------------------------------------------------------------ performOperation
\* A PendingOperation built with the default priority instead of the priority of
\* the call.
PendingOperationDefaultPriority(call, timestamp) ==
  [id |-> call.operationId, endpoint |-> call.endpoint, method |-> call.method,
   body |-> call.body, timestamp |-> timestamp, retryCount |-> 0,
   priority |-> "medium"]

\* The PendingOperation that performOperation builds (at three places, alike).
PendingOperation(call, timestamp) ==
  [id |-> call.operationId, endpoint |-> call.endpoint, method |-> call.method,
   body |-> call.body, timestamp |-> timestamp, retryCount |-> 0,
   priority |-> call.priority]

\* return { success: false, queued: true }
QueuedResult ==
  [success |-> FALSE, data |-> UNDEFINED, error |-> UNDEFINED, queued |-> "true"]

\* return { success: true, data: result.data }
SuccessResult(o) ==
  [success |-> TRUE, data |-> ResponseData(o), error |-> UNDEFINED, queued |-> UNDEFINED]

\* The failure result with the queued flag of the offline branch.
FailureResultQueued(o) ==
  [success |-> FALSE, data |-> UNDEFINED, error |-> ResponseError(o), queued |-> "true"]

\* return { success: false, error }
FailureResult(o) ==
  [success |-> FALSE, data |-> UNDEFINED, error |-> ResponseError(o), queued |-> UNDEFINED]

\* The offline test without the offlineSupport option.
QueuesWhenOffline(online, offlineSupport) == ~online

\* if (!this.isOnline && offlineSupport)
QueuesOffline(online, offlineSupport) == ~online /\ offlineSupport

\* A return statement is reached: the promise of the call resolves with the result.
Return(call, result) == [call EXCEPT !.pc = "returned", !.result = result]

\* An error leaves performOperation: the promise of the call is rejected.
Reject(call) == [call EXCEPT !.pc = "rejected"]

\* A push that is taken back when the save fails.
EnqueueRollingBack(call, written) ==
  /\ pendingOperations' =
       IF written THEN Append(pendingOperations, PendingOperation(call, clock))
       ELSE pendingOperations
  /\ savePendingOperations(Append(pendingOperations, PendingOperation(call, clock)),
                           written)

\* The push and the save of a new PendingOperation for the call.
Enqueue(call, written) ==
  /\ pendingOperations' = Append(pendingOperations, PendingOperation(call, clock))
  /\ savePendingOperations(pendingOperations', written)

\* The call after Enqueue: suspended at await this.savePendingOperations(), with the
\* result it returns afterwards.
Saving(call, written, result) ==
  [call EXCEPT !.pc = "save", !.enqueued = TRUE,
               !.written = IF written THEN "true" ELSE "false", !.result = result]

\* Whether the call is inside the try block of performOperation: it took the online
\* path, its transport call came back without throwing, and it has not been in the
\* catch block yet.
InTry(call) == call.path = "online" /\ call.outcome = "response" /\ ~call.caught

\* What the catch block of performOperation does with an error thrown inside the try
\* block: it queues the operation when offlineSupport is set and returns the failure.
Catch(i, call) ==
  LET o == [kind |-> "throw", status |-> 0, applied |-> FALSE]
  IN IF call.offlineSupport
     THEN \E written \in BOOLEAN :
            /\ Enqueue(call, written)
            /\ calls' = [calls EXCEPT ![i] =
                           Saving([call EXCEPT !.caught = TRUE], written, FailureResult(o))]
     ELSE /\ calls' = [calls EXCEPT ![i] = Return(call, FailureResult(o))]
          /\ UNCHANGED <<pendingOperations, storage, saved, storeFailed>>

\* performOperation up to its first await: the id, then either the push and the
\* save of the offline branch, or the transport call.
PerformOperation(req, offlineSupport) ==
  /\ nextId <= MaxCalls
  /\ Len(calls) < MaxInFlight
  /\ LET call == [endpoint |-> req.endpoint, method |-> req.method, body |-> req.body,
                  priority |-> req.priority, offlineSupport |-> offlineSupport,
                  syncTarget |-> req.syncTarget, operationId |-> nextId,
                  online |-> isOnline, mirror |-> "none",
                  pc |-> "transport", path |-> "online", outcome |-> "none",
                  status |-> 0, enqueued |-> FALSE, written |-> "none", caught |-> FALSE,
                  result |-> NoResult]
     IN IF QueuesOffline(isOnline, offlineSupport)
        THEN /\ \E written \in BOOLEAN :
                  /\ Enqueue(call, written)
                  /\ calls' = Append(calls, Saving([call EXCEPT !.path = "offline"],
                                                   written, QueuedResult))
             /\ UNCHANGED transportCalls
        ELSE /\ calls' = Append(calls, call)
             /\ transportCalls' = [transportCalls EXCEPT ![nextId] = @ + 1]
             /\ UNCHANGED <<pendingOperations, storage, saved, storeFailed>>
  /\ nextId' = nextId + 1
  /\ UNCHANGED <<clock, isOnline, netState, syncInProgress, lastSyncAttempt, loading, fetching,
                 pass, restarts, synced, applied, lastPassStart>>
  /\ lastSync' = NoSync

\* The transport call of performOperation comes back: the success branch, the
\* server-error branch or the catch block, up to the next await or the return.
TransportReturns(i, o) ==
  /\ i \in 1..Len(calls)
  /\ calls[i].pc = "transport"
  /\ LET call == [calls[i] EXCEPT !.outcome = o.kind, !.status = o.status]
     IN IF o.kind = "response" /\ IsSuccessStatus(o.status)
        THEN /\ calls' = [calls EXCEPT ![i] =
                            IF call.syncTarget # UNDEFINED /\ ResponseData(o) # UNDEFINED
                            THEN [call EXCEPT !.pc = "mirror", !.result = SuccessResult(o)]
                            ELSE Return(call, SuccessResult(o))]
             /\ UNCHANGED <<pendingOperations, storage, saved, storeFailed>>
        ELSE IF call.offlineSupport
        THEN \E written \in BOOLEAN :
               /\ Enqueue(call, written)
               /\ calls' = [calls EXCEPT ![i] = Saving(call, written, FailureResult(o))]
        ELSE /\ calls' = [calls EXCEPT ![i] = Return(call, FailureResult(o))]
             /\ UNCHANGED <<pendingOperations, storage, saved, storeFailed>>
  /\ UNCHANGED <<clock, isOnline, netState, syncInProgress, lastSyncAttempt, loading, fetching,
                 nextId, pass, restarts, transportCalls, synced, lastPassStart>>
  /\ applied' = Applied(calls[i].operationId, o)
  /\ lastSync' = NoSync

\* updateLocalMirror comes back; it catches what the mirror throws, so both outcomes
\* lead to the same return.
MirrorReturns(i, updated) ==
  /\ i \in 1..Len(calls)
  /\ calls[i].pc = "mirror"
  /\ IF updateLocalMirrorThrows(updated)
     THEN Catch(i, calls[i])
     ELSE /\ calls' = [calls EXCEPT ![i] =
                         Return([calls[i] EXCEPT !.mirror = IF updated THEN "updated"
                                                            ELSE "failed"],
                                calls[i].result)]
          /\ UNCHANGED <<pendingOperations, storage, saved, storeFailed>>
  /\ UNCHANGED <<clock, isOnline, netState, syncInProgress, lastSyncAttempt, loading, fetching,
                 nextId, pass, restarts, transportCalls, synced, applied, lastPassStart>>
  /\ lastSync' = NoSync

\* await this.savePendingOperations() comes back in performOperation.
SaveReturns(i) ==
  /\ i \in 1..Len(calls)
  /\ calls[i].pc = "save"
  /\ IF ~savePendingOperationsThrows(calls[i].written = "true")
     THEN /\ calls' = [calls EXCEPT ![i] = Return(calls[i], calls[i].result)]
          /\ UNCHANGED <<pendingOperations, storage, saved, storeFailed>>
     ELSE IF InTry(calls[i])
     THEN Catch(i, calls[i])
     ELSE /\ calls' = [calls EXCEPT ![i] = Reject(calls[i])]
          /\ UNCHANGED <<pendingOperations, storage, saved, storeFailed>>
  /\ UNCHANGED <<clock, isOnline, netState, syncInProgress, lastSyncAttempt, loading, fetching,
                 nextId, pass, restarts, transportCalls, synced, applied, lastPassStart>>
  /\ lastSync' = NoSync

\* The caller (services/workout.ts) takes the result off the settled promise.
CallerResumes(i) ==
  /\ i \in 1..Len(calls)
  /\ calls[i].pc \in {"returned", "rejected"}
  /\ calls' = RemoveAt(calls, i)
  /\ UNCHANGED <<clock, isOnline, netState, pendingOperations, syncInProgress, lastSyncAttempt,
                 storage, saved, storeFailed, loading, fetching, nextId, pass, restarts, transportCalls,
                 synced, applied, lastPassStart>>
  /\ lastSync' = NoSync

\* ------------------------------------------------------------------ syncPendingOperations
\* The rate limit one millisecond short.
RateLimitedShort(now, last) == now - last < MIN_SYNC_INTERVAL_MS - 1

\* if (now - this.lastSyncAttempt < 5000)
RateLimited(now, last) == now - last < MIN_SYNC_INTERVAL_MS

\* if (operation.retryCount >= MAX_RETRY_ATTEMPTS)
ExceededRetries(operation) == operation.retryCount >= MAX_RETRY_ATTEMPTS

\* A backoff test that never lets an operation through once it has failed.
WaitsForBackoffForEver(operation, now) == operation.retryCount > 0

\* if (operation.retryCount > 0 && now - operation.timestamp < backoffDelay)
WaitsForBackoff(operation, now) ==
  operation.retryCount > 0 /\ now - operation.timestamp < backoffDelay(operation.retryCount)

\* history: what the loop did with the operation, and the fields it read
Logged(p, operation, what) ==
  Append(p.log, [id |-> operation.id, what |-> what, priority |-> operation.priority,
                 retryCount |-> operation.retryCount, timestamp |-> operation.timestamp])

\* The for loop from element i on, up to the next transport call (pc "transport",
\* idx the element it is made for) or to the end of the snapshot (pc "save").
RECURSIVE RunLoop(_, _)
RunLoop(p, i) ==
  IF i > Len(p.operationsToProcess)
  THEN [p EXCEPT !.pc = "save", !.idx = i]
  ELSE LET operation == p.operationsToProcess[i]
       IN IF ExceededRetries(operation)
          THEN RunLoop([p EXCEPT !.failedOperations = Append(@, operation.id),
                                 !.log = Logged(p, operation, "ceiling")], i + 1)
          ELSE IF WaitsForBackoff(operation, p.now)
          THEN RunLoop([p EXCEPT !.log = Logged(p, operation, "backoff")], i + 1)
          ELSE [p EXCEPT !.pc = "transport", !.idx = i,
                         !.log = Logged(p, operation, "attempt")]

\* The filter applied to the snapshot of the pass in place of the queue.
RemoveFinishedFromSnapshot(queue, p) ==
  SelectSeq(p.operationsToProcess,
            LAMBDA op : /\ op.id \notin SeqRange(p.successfulOperations)
                        /\ op.id \notin SeqRange(p.failedOperations))

\* this.pendingOperations.filter(op => !successfulOperations.includes(op.id)
\*                                      && !failedOperations.includes(op.id))
RemoveFinished(queue, p) ==
  SelectSeq(queue, LAMBDA op : /\ op.id \notin SeqRange(p.successfulOperations)
                               /\ op.id \notin SeqRange(p.failedOperations))

\* The pass goes on to p: either its next transport call is made, or the loop is over
\* and the queue is filtered and saved.
Proceed(p, queue) ==
  /\ pass' = p
  /\ IF p.pc = "save"
     THEN /\ pendingOperations' = RemoveFinished(queue, p)
          /\ \E written \in BOOLEAN : savePendingOperations(pendingOperations', written)
          /\ UNCHANGED transportCalls
     ELSE /\ pendingOperations' = queue
          /\ transportCalls' =
               [transportCalls EXCEPT ![p.operationsToProcess[p.idx].id] = @ + 1]
          /\ UNCHANGED <<storage, saved, storeFailed>>

\* A guard of syncPendingOperations or of manualSync returns early.
NotStarted(outcome) ==
  /\ lastSync' = outcome
  /\ UNCHANGED <<pendingOperations, syncInProgress, lastSyncAttempt, storage, saved, storeFailed, pass,
                 transportCalls, lastPassStart>>

\* The pass starts: the flag, lastSyncAttempt, the sort, the snapshot and the loop up
\* to its first await.
StartPass ==
  /\ syncInProgress' = TRUE
  /\ lastSyncAttempt' = clock
  /\ lastSync' = "started"
  /\ lastPassStart' = clock
  /\ LET sorted == SortOperations(pendingOperations)
         p == [IdlePass EXCEPT !.now = clock, !.operationsToProcess = sorted,
                               !.shared = TRUE, !.sorted = sorted]
     IN Proceed(RunLoop(p, 1), sorted)

\* syncPendingOperations with the test of isOnline before the test of the flag.
syncPendingOperationsOfflineFirst(online) ==
  IF ~online THEN NotStarted("offline")
  ELSE IF syncInProgress THEN NotStarted("inProgress")
  ELSE IF RateLimited(clock, lastSyncAttempt) THEN NotStarted("rateLimited")
  ELSE StartPass

\* syncPendingOperations without the guard on syncInProgress.
syncPendingOperationsUnguarded(online) ==
  IF ~online THEN NotStarted("offline")
  ELSE IF RateLimited(clock, lastSyncAttempt) THEN NotStarted("rateLimited")
  ELSE StartPass

\* A call of syncPendingOperations while this.isOnline is `online`: the three guards
\* in their order, then the pass.
syncPendingOperations(online) ==
  IF syncInProgress THEN NotStarted("inProgress")
  ELSE IF ~online THEN NotStarted("offline")
  ELSE IF RateLimited(clock, lastSyncAttempt) THEN NotStarted("rateLimited")
  ELSE StartPass

\* syncPendingOperations called by itself.
SyncPendingOperations ==
  /\ syncPendingOperations(isOnline)
  /\ UNCHANGED <<clock, isOnline, netState, loading, fetching, calls, nextId, restarts, synced, applied>>

\* manualSync: its two guards, then the call.
ManualSync ==
  /\ IF ~isOnline THEN NotStarted("offline")
     ELSE IF syncInProgress THEN NotStarted("inProgress")
     ELSE syncPendingOperations(isOnline)
  /\ UNCHANGED <<clock, isOnline, netState, loading, fetching, calls, nextId, restarts, synced, applied>>

\* The failure branch without the assignment to operation.timestamp.
RetriedKeepingTimestamp(operation, now) ==
  [operation EXCEPT !.retryCount = @ + 1]

\* operation.retryCount++; operation.timestamp = now
Retried(operation, now) ==
  [operation EXCEPT !.retryCount = @ + 1, !.timestamp = now]

\* A failure branch that stamps every operation of the queue with the time of the
\* pass, not only the one that was attempted.
WriteThroughStamping(queue, p, operation) ==
  [k \in 1..Len(queue) |->
     IF queue[k].id = operation.id THEN operation
     ELSE [queue[k] EXCEPT !.timestamp = operation.timestamp]]

\* The objects of the snapshot are the objects of the queue (the spread copies the
\* array, not its elements), unless the queue has been replaced since: what the pass
\* writes to an operation shows in the queue element that is the same object.
WriteThrough(queue, p, operation) ==
  IF p.shared
  THEN [k \in 1..Len(queue) |-> IF queue[k].id = operation.id THEN operation ELSE queue[k]]
  ELSE queue

\* The transport call of the pass comes back for operationsToProcess[idx]: success,
\* error status or catch, up to the delay between two operations.
SyncTransportReturns(o) ==
  /\ pass.pc = "transport"
  /\ LET operation == pass.operationsToProcess[pass.idx]
     IN IF o.kind = "response" /\ IsSuccessStatus(o.status)
        THEN /\ pass' = [pass EXCEPT !.pc = "delay", !.sent = TRUE,
                                     !.successfulOperations = Append(@, operation.id)]
             /\ synced' = synced \cup {operation.id}
             /\ UNCHANGED pendingOperations
        ELSE LET retried == Retried(operation, pass.now)
             IN /\ \E sent \in MayBeSent(o) :
                     pass' = [pass EXCEPT
                              !.pc = "delay", !.sent = sent,
                              !.operationsToProcess[pass.idx] = retried,
                              !.failedOperations =
                                 IF ExceededRetries(retried)
                                 THEN Append(@, operation.id) ELSE @]
                /\ pendingOperations' = WriteThrough(pendingOperations, pass, retried)
                /\ UNCHANGED synced
  /\ UNCHANGED <<clock, isOnline, netState, syncInProgress, lastSyncAttempt, storage, saved, storeFailed, loading,
                 fetching, calls, nextId, restarts, transportCalls,
                 lastPassStart>>
  /\ applied' = Applied(pass.operationsToProcess[pass.idx].id, o)
  /\ lastSync' = NoSync

\* The loop with a test of this.isOnline before each further element: when the
\* device has gone offline the rest of the snapshot is left out.
DelayElapsesUnlessOffline ==
  /\ pass.pc = "delay"
  /\ IF isOnline
     THEN Proceed(RunLoop([pass EXCEPT !.sent = TRUE], pass.idx + 1), pendingOperations)
     ELSE Proceed([pass EXCEPT !.pc = "save", !.sent = TRUE], pendingOperations)
  /\ UNCHANGED <<clock, isOnline, netState, syncInProgress, lastSyncAttempt, loading, fetching,
                 calls, nextId, restarts, synced, applied, lastPassStart>>
  /\ lastSync' = NoSync

\* The 100 ms timer between two operations fires: the loop goes on.
DelayElapses ==
  /\ pass.pc = "delay"
  /\ Proceed(RunLoop([pass EXCEPT !.sent = TRUE], pass.idx + 1), pendingOperations)
  /\ UNCHANGED <<clock, isOnline, netState, syncInProgress, lastSyncAttempt, loading, fetching,
                 calls, nextId, restarts, synced, applied, lastPassStart>>
  /\ lastSync' = NoSync

\* The end of a pass without the finally block: the flag stays set.
SyncSaveReturnsKeepingFlag ==
  /\ pass.pc = "save"
  /\ pass' = IdlePass
  /\ UNCHANGED <<clock, isOnline, netState, pendingOperations, syncInProgress, lastSyncAttempt,
                 storage, saved, storeFailed, loading, fetching, calls, nextId, restarts,
                 transportCalls, synced, applied, lastPassStart>>
  /\ lastSync' = NoSync

\* The save at the end of the pass comes back; finally resets the flag.
SyncSaveReturns ==
  /\ pass.pc = "save"
  /\ pass' = IdlePass
  /\ syncInProgress' = FALSE
  /\ UNCHANGED <<clock, isOnline, netState, pendingOperations, lastSyncAttempt, storage, saved, storeFailed, loading,
                 fetching, calls, nextId, restarts, transportCalls, synced, applied,
                 lastPassStart>>
  /\ lastSync' = NoSync

\* ------------------------------------------------------------------ network monitor
\* A NetInfoState as far as the layer reads it: isConnected and isInternetReachable
\* are true, false or null.
NetStates == [isConnected : {"true", "false", "null"},
              isInternetReachable : {"true", "false", "null"}]

\* The reports the monitor makes in the runs of the model: online with reachability
\* confirmed or not yet known, connected without internet, disconnected.
Reports ==
  { [isConnected |-> "true", isInternetReachable |-> "true"],
    [isConnected |-> "true", isInternetReachable |-> "null"],
    [isConnected |-> "true", isInternetReachable |-> "false"],
    [isConnected |-> "false", isInternetReachable |-> "false"] }

\* The two reports of a device that goes offline and comes back: where the derived
\* flag alone matters, the runs take their reports from these.
Connectivity ==
  { [isConnected |-> "true", isInternetReachable |-> "true"],
    [isConnected |-> "false", isInternetReachable |-> "false"] }

\* The flag of a device that is connected and known to reach the internet only.
OnlineWhenReachable(state) ==
  state.isConnected = "true" /\ state.isInternetReachable = "true"

\* state.isConnected === true && state.isInternetReachable !== false
Online(state) == state.isConnected = "true" /\ state.isInternetReachable # "false"

\* The listener of NetInfo.addEventListener runs for a reported state.
NetworkEvent(state) ==
  /\ isOnline' = Online(state)
  /\ netState' = state
  /\ IF ~isOnline /\ isOnline'
     THEN syncPendingOperations(isOnline')
     ELSE /\ lastSync' = NoSync
          /\ UNCHANGED <<pendingOperations, syncInProgress, lastSyncAttempt, storage, saved, storeFailed,
                         pass, transportCalls, lastPassStart>>
  /\ UNCHANGED <<clock, loading, fetching, calls, nextId, restarts, synced, applied>>

\* The initial NetInfo.fetch() is answered.
FetchReturns(state) ==
  /\ fetching
  /\ fetching' = FALSE
  /\ isOnline' = Online(state)
  /\ netState' = state
  /\ UNCHANGED <<clock, pendingOperations, syncInProgress, lastSyncAttempt, storage, saved, storeFailed,
                 loading, calls, nextId, pass, restarts, transportCalls, synced, applied, lastPassStart>>
  /\ lastSync' = NoSync

\* ------------------------------------------------------------------ startup load
\* AsyncStorage.getItem comes back in loadPendingOperations with the value read when
\* the constructor asked for it: the parsed array replaces this.pendingOperations,
\* null leaves it alone.  When getItem throws, the catch block logs and nothing else
\* happens.
LoadReturns(thrown) ==
  /\ loading.pending
  /\ loading' = [pending |-> FALSE, value |-> NullItem]
  /\ IF ~thrown /\ ~loading.value.isNull
     THEN /\ pendingOperations' = loading.value.ops
          /\ pass' = [pass EXCEPT !.shared = FALSE]
     ELSE UNCHANGED <<pendingOperations, pass>>
  /\ storeFailed' = (storeFailed \/ thrown)
  /\ UNCHANGED <<clock, isOnline, netState, syncInProgress, lastSyncAttempt, storage, saved,
                 fetching, calls, nextId, restarts, transportCalls, synced, applied,
                 lastPassStart>>
  /\ lastSync' = NoSync

\* ------------------------------------------------------------------ process and clock
\* The process is terminated and the application started again: only the store
\* outlives it, and the constructor runs.
Restart ==
  /\ restarts < MaxRestarts
  /\ restarts' = restarts + 1
  /\ isOnline' = TRUE
  /\ netState' = NoReport
  /\ pendingOperations' = << >>
  /\ syncInProgress' = FALSE
  /\ lastSyncAttempt' = 0
  /\ loading' = [pending |-> TRUE, value |-> storage]
  /\ fetching' = TRUE
  /\ calls' = << >>
  /\ pass' = IdlePass
  /\ lastSync' = NoSync
  /\ lastPassStart' = -1
  /\ UNCHANGED <<clock, storage, saved, storeFailed, nextId, transportCalls, synced, applied>>

\* Time passes: Date.now() moves on to a later one of the instants.
Tick(instants) ==
  /\ \E t \in instants : t > clock /\ clock' = t
  /\ UNCHANGED <<isOnline, netState, pendingOperations, syncInProgress, lastSyncAttempt, storage, saved, storeFailed,
                 loading, fetching, calls, nextId, pass, restarts, transportCalls,
                 synced, applied, lastPassStart>>
  /\ lastSync' = NoSync

\* ------------------------------------------------------------------ specifications
\* The whole layer from its construction: the store as a new installation finds it,
\* or with an operation that an earlier run left in it.
InitialStores == {NullItem, Item(<<Seed(101, UpdateRequest, StartTime, 0)>>)}

Init == \E stored \in InitialStores : Constructed(stored)

Instants == {StartTime + 5000}

Next ==
  \/ \E req \in Requests, offlineSupport \in BOOLEAN : PerformOperation(req, offlineSupport)
  \/ \E i \in 1..Len(calls), o \in ToldOutcomes : TransportReturns(i, o)
  \/ \E i \in 1..Len(calls), updated \in BOOLEAN : MirrorReturns(i, updated)
  \/ \E i \in 1..Len(calls) : SaveReturns(i)
  \/ \E i \in 1..Len(calls) : CallerResumes(i)
  \/ SyncPendingOperations
  \/ ManualSync
  \/ \E o \in ToldOutcomes : SyncTransportReturns(o)
  \/ DelayElapses
  \/ SyncSaveReturns
  \/ \E state \in Connectivity : NetworkEvent(state)
  \/ \E state \in Connectivity : FetchReturns(state)
  \/ \E thrown \in BOOLEAN : LoadReturns(thrown)
  \/ Tick(Instants)

Spec == Init /\ [][Next]_vars

\* An instance whose startup is over (the load and the initial fetch have come back)
\* with a queue that is in the store as well.
Running(queue, online) ==
  /\ clock = StartTime
  /\ isOnline = online
  /\ netState = NoReport
  /\ pendingOperations = queue
  /\ syncInProgress = FALSE
  /\ lastSyncAttempt = 0
  /\ storage = Item(queue)
  /\ saved = queue
  /\ loading = [pending |-> FALSE, value |-> NullItem]
  /\ fetching = FALSE
  /\ calls = << >>
  /\ nextId = 1
  /\ pass = IdlePass
  /\ restarts = 0
  /\ transportCalls = [i \in OperationIds |-> 0]
  /\ synced = {}
  /\ applied = [i \in OperationIds |-> 0]
  /\ storeFailed = FALSE
  /\ lastSync = NoSync
  /\ lastPassStart = -1

\* The drain of a queue.  The queues: operations of every priority that failed
\* retryCount times, the last time `elapsed` ms before the first pass, at both sides
\* of every backoff delay.
RequestOf(priority) ==
  IF priority = "medium" THEN UpdateRequest
  ELSE CHOOSE req \in Requests : req.priority = priority

BackoffCases ==
  { <<0, 0>>, <<0, 1000>>, <<1, 1999>>, <<1, 2000>>, <<2, 1000>>, <<2, 3999>>,
    <<2, 4000>>, <<2, 4001>>, <<3, 7999>>, <<3, 8000>>, <<4, 15999>>, <<4, 16000>>,
    <<5, 0>> }

SeedCase(id, priority, case) ==
  Seed(id, RequestOf(priority), StartTime - case[2], case[1])

DrainQueues ==
  { <<SeedCase(101, p1, c1), SeedCase(102, p2, c2)>> :
      p1 \in Priorities, c1 \in BackoffCases, p2 \in Priorities,
      c2 \in {<<2, 1000>>, <<2, 4001>>} }
  \cup
  { <<SeedCase(101, p1, <<0, e1>>), SeedCase(102, p2, <<0, e2>>),
      SeedCase(103, p3, <<0, e3>>)>> :
      p1 \in Priorities, p2 \in Priorities, p3 \in Priorities,
      e1 \in {0, 1000}, e2 \in {0, 1000}, e3 \in {0, 1000} }

InitDrain == \E queue \in DrainQueues : Running(queue, TRUE)

DrainInstants == {StartTime + 4999, StartTime + 5000}

NextDrain ==
  \/ SyncPendingOperations
  \/ ManualSync
  \/ \E o \in ToldOutcomes : SyncTransportReturns(o)
  \/ DelayElapses
  \/ SyncSaveReturns
  \/ Tick(DrainInstants)

SpecDrain == InitDrain /\ [][NextDrain]_vars

\* One operation from performOperation to the retry ceiling: the clock runs far
\* enough for five passes, each after the backoff delay of the pass before.
RetryInstants ==
  {StartTime + 5000, StartTime + 10000, StartTime + 18000, StartTime + 34000}

InitRetry == Running(<< >>, TRUE)

NextRetry ==
  \/ \E req \in Requests, offlineSupport \in BOOLEAN : PerformOperation(req, offlineSupport)
  \/ \E i \in 1..Len(calls), o \in TransportOutcomes : TransportReturns(i, o)
  \/ \E i \in 1..Len(calls), updated \in BOOLEAN : MirrorReturns(i, updated)
  \/ \E i \in 1..Len(calls) : SaveReturns(i)
  \/ \E i \in 1..Len(calls) : CallerResumes(i)
  \/ SyncPendingOperations
  \/ \E o \in TransportOutcomes : SyncTransportReturns(o)
  \/ DelayElapses
  \/ SyncSaveReturns
  \/ \E state \in Connectivity : NetworkEvent(state)
  \/ Tick(RetryInstants)

SpecRetry == InitRetry /\ [][NextRetry]_vars

\* The layer over a restart of the application: calls and passes as in Spec, at one
\* instant, and the process terminated and started again at any point, so that the
\* next instance loads what the last one saved.
InitRestart == Init

NextRestart ==
  \/ \E req \in Requests, offlineSupport \in BOOLEAN : PerformOperation(req, offlineSupport)
  \/ \E i \in 1..Len(calls), o \in ToldOutcomes : TransportReturns(i, o)
  \/ \E i \in 1..Len(calls), updated \in BOOLEAN : MirrorReturns(i, updated)
  \/ \E i \in 1..Len(calls) : SaveReturns(i)
  \/ \E i \in 1..Len(calls) : CallerResumes(i)
  \/ SyncPendingOperations
  \/ \E o \in ToldOutcomes : SyncTransportReturns(o)
  \/ DelayElapses
  \/ SyncSaveReturns
  \/ \E state \in Reports : FetchReturns(state)
  \/ \E thrown \in BOOLEAN : LoadReturns(thrown)
  \/ Restart

SpecRestart == InitRestart /\ [][NextRestart]_vars

\* The network monitor and the layer: every state that NetInfo can report, to the
\* listener and as the answer of the initial fetch, with the passes that the
\* listener starts and a restart of the application.
InitNet == Init

NextNet ==
  \/ \E state \in NetStates : NetworkEvent(state)
  \/ \E state \in NetStates : FetchReturns(state)
  \/ \E thrown \in BOOLEAN : LoadReturns(thrown)
  \/ \E o \in ToldOutcomes : SyncTransportReturns(o)
  \/ DelayElapses
  \/ SyncSaveReturns
  \/ Restart
  \/ Tick(Instants)

SpecNet == InitNet /\ [][NextNet]_vars

\* The drain under triggers that keep coming: the device stays online, time moves
\* on by one of the gaps once a pass has been started at the present instant (so
\* that a trigger comes at every instant, at least 5000 ms after the one before),
\* and every transport call, delay and save of a pass comes back.  The horizon is
\* far enough for an operation to fail five times with every backoff delay waited
\* for; when it is reached time stands still.
LiveGaps == {MIN_SYNC_INTERVAL_MS, 2 * MIN_SYNC_INTERVAL_MS}

LiveHorizon == StartTime + 13 * MIN_SYNC_INTERVAL_MS

LiveQueues ==
  { <<SeedCase(101, "high", c)>> : c \in BackoffCases }
  \cup
  { <<SeedCase(101, p, <<0, 0>>), SeedCase(102, "medium", c)>> :
      p \in {"high", "low"}, c \in {<<2, 1000>>} }

InitLive == \E queue \in LiveQueues : Running(queue, TRUE)

\* A trigger gets past the three guards.
PassStarts == SyncPendingOperations /\ lastSync' = "started"

TickLive ==
  /\ lastPassStart = clock
  /\ \E gap \in LiveGaps : clock + gap <= LiveHorizon /\ Tick({clock + gap})

NextLive ==
  \/ SyncPendingOperations
  \/ ManualSync
  \/ \E o \in ToldOutcomes : SyncTransportReturns(o)
  \/ DelayElapses
  \/ SyncSaveReturns
  \/ TickLive

FairLive ==
  /\ WF_vars(PassStarts)
  /\ WF_vars(\E o \in ToldOutcomes : SyncTransportReturns(o))
  /\ WF_vars(DelayElapses)
  /\ WF_vars(SyncSaveReturns)
  /\ WF_vars(TickLive)

SpecLive == InitLive /\ [][NextLive]_vars /\ FairLive

\* ------------------------------------------------------------------ claims
\* C1: an operation that is in the pending queue leaves it only because a sync
\* attempt for it came back with a 2xx status or because its retryCount reached
\* MAX_RETRY_ATTEMPTS, and an operation that a sync attempt completed does not come
\* back into the queue.
C1_LeavesOnlyBySuccessOrCeiling ==
  [][ /\ \A k \in 1..Len(pendingOperations) :
           pendingOperations[k].id \notin Ids(pendingOperations')
             => \/ pendingOperations[k].id \in synced'
                \/ pendingOperations[k].retryCount >= MAX_RETRY_ATTEMPTS
      /\ \A id \in synced :
           id \in Ids(pendingOperations') => id \in Ids(pendingOperations) ]_vars

\* C2: an operation accepted with offlineSupport whose transport attempts all fail is
\* removed from the queue after exactly 5 failed attempts, the transport is never
\* called for it a 6th time, and no success is reported for it.
C2_RemovedAfterExactlyFiveAttempts ==
  [][ /\ \A id \in 1..MaxCalls : transportCalls'[id] <= 5
      /\ \A k \in 1..Len(pendingOperations) :
           ( /\ pendingOperations[k].id \notin Ids(pendingOperations')
             /\ pendingOperations[k].id \notin synced' )
             => transportCalls[pendingOperations[k].id] = 5
      /\ \A i \in 1..Len(calls') :
           calls'[i].enqueued => ~calls'[i].result.success ]_vars

\* The calls of a sequence of calls that are for the operation id (none or one).
CallsOf(id, cs) == {cs[j] : j \in {j \in 1..Len(cs) : cs[j].operationId = id}}

\* In this step performOperation is called: the call is there afterwards only.
Started(call) == CallsOf(call.operationId, calls) = {}

\* In this step the call goes on from a suspension point.
Resumed(call) == \E old \in CallsOf(call.operationId, calls) : old # call

\* The fields of a PendingOperation that come from the call.
C3_Carries(operation, call) ==
  /\ operation.id = call.operationId
  /\ operation.endpoint = call.endpoint
  /\ operation.method = call.method
  /\ operation.body = call.body
  /\ operation.priority = call.priority
  /\ operation.retryCount = 0

\* C3: a performOperation call made while isOnline is false with offlineSupport makes
\* no transport call, returns {success: false, queued: true}, and the queue grows by
\* exactly one item that carries the endpoint, method, body and priority of the call
\* with retryCount 0.
C3_OfflineCallIsQueued ==
  [][ \A call \in SeqRange(calls') :
        (~call.online /\ call.offlineSupport) =>
          /\ Started(call) =>
               /\ transportCalls' = transportCalls
               /\ Len(pendingOperations') = Len(pendingOperations) + 1
               /\ SubSeq(pendingOperations', 1, Len(pendingOperations)) = pendingOperations
               /\ C3_Carries(pendingOperations'[Len(pendingOperations')], call)
          /\ Resumed(call) =>
               /\ transportCalls' = transportCalls
               /\ pendingOperations' = pendingOperations
               /\ call.pc = "returned"
               /\ call.outcome = "none"
               /\ call.result.success = FALSE
               /\ call.result.queued = "true"
               /\ call.result.data = UNDEFINED
               /\ call.result.error = UNDEFINED ]_vars

\* An offline call has returned and its operation is in the queue.
C3_Witness ==
  \E i \in 1..Len(calls) :
    /\ ~calls[i].online /\ calls[i].offlineSupport
    /\ calls[i].pc = "returned"
    /\ calls[i].result.queued = "true"
    /\ \E k \in 1..Len(pendingOperations) : C3_Carries(pendingOperations[k], calls[i])
    /\ transportCalls[calls[i].operationId] = 0

\* The call as it was before this step.
Before(call) == CHOOSE old \in CallsOf(call.operationId, calls) : TRUE

\* The transport call of performOperation came back with an error status or threw.
AttemptFailed(call) ==
  \/ call.outcome = "throw"
  \/ call.outcome = "response" /\ ~(call.status >= 200 /\ call.status < 300)

\* In this step the transport call of the call comes back.
AttemptReturns(call) ==
  Resumed(call) /\ Before(call).pc = "transport" /\ call.outcome # "none"

\* What C4 says of a failed attempt apart from the store.
C4_AppendsOnceAndReturnsError(call) ==
  /\ AttemptReturns(call) =>
       /\ Len(pendingOperations') = Len(pendingOperations) + 1
       /\ SubSeq(pendingOperations', 1, Len(pendingOperations)) = pendingOperations
       /\ C3_Carries(pendingOperations'[Len(pendingOperations')], call)
  /\ (Resumed(call) /\ ~AttemptReturns(call)) =>
       /\ pendingOperations' = pendingOperations
       /\ storage' = storage
  /\ (Resumed(call) /\ call.pc = "returned") =>
       /\ call.result.success = FALSE
       /\ call.result.error # UNDEFINED
       /\ call.result.queued = UNDEFINED

\* C4 as the specification states it: when the attempt of performOperation fails and
\* offlineSupport is set, one new PendingOperation with retryCount 0 is appended and
\* the store holds the queue with it; the call returns {success: false, error}
\* without the queued flag.
C4_AppendedAndPersisted ==
  [][ \A call \in SeqRange(calls') :
        (call.offlineSupport /\ AttemptFailed(call)) =>
          /\ C4_AppendsOnceAndReturnsError(call)
          /\ AttemptReturns(call) => storage' = Item(pendingOperations') ]_vars

\* C4, amended: when the attempt of performOperation fails and offlineSupport is set,
\* one new PendingOperation with retryCount 0 is appended and the queue is written to
\* the store; when that write fails the store keeps what it held.  The call returns
\* {success: false, error} without the queued flag.
C4_AppendedAndSaveAttempted ==
  [][ \A call \in SeqRange(calls') :
        (call.offlineSupport /\ AttemptFailed(call)) =>
          /\ C4_AppendsOnceAndReturnsError(call)
          /\ AttemptReturns(call) =>
               storage' = IF call.written = "true" THEN Item(pendingOperations')
                          ELSE storage ]_vars

\* A call whose attempt got an error status has returned; its operation is in the
\* queue and in the store.
C4_Witness ==
  \E call \in SeqRange(calls) :
    /\ call.offlineSupport /\ call.online
    /\ call.outcome = "response" /\ call.status = 500
    /\ call.pc = "returned"
    /\ call.result.error = "Server error"
    /\ \E k \in 1..Len(pendingOperations) : C3_Carries(pendingOperations[k], call)
    /\ ~storage.isNull
    /\ call.operationId \in Ids(storage.ops)

\* C5: a performOperation call made while online whose transport call comes back with
\* a status in [200, 300) returns {success: true, data}, and no step of it changes the
\* queue or the store.
C5_SuccessLeavesQueue ==
  [][ \A call \in SeqRange(calls') :
        call.online =>
          /\ Started(call) =>
               pendingOperations' = pendingOperations /\ storage' = storage
          /\ ( /\ Resumed(call)
               /\ call.outcome = "response"
               /\ call.status >= 200 /\ call.status < 300 ) =>
               /\ pendingOperations' = pendingOperations
               /\ storage' = storage
               /\ call.pc \in {"mirror", "returned"}
               /\ call.pc = "returned" =>
                    /\ call.result.success = TRUE
                    /\ call.result.data = "data"
                    /\ call.result.error = UNDEFINED
                    /\ call.result.queued = UNDEFINED ]_vars

\* A call has returned success while the queue and the store hold an operation.
C5_Witness ==
  \E call \in SeqRange(calls) :
    /\ call.online /\ call.offlineSupport
    /\ call.outcome = "response" /\ call.status = 200
    /\ call.pc = "returned"
    /\ call.result.success
    /\ Len(pendingOperations) = 1
    /\ ~storage.isNull
    /\ Ids(storage.ops) = Ids(pendingOperations)
    /\ call.operationId \notin Ids(pendingOperations)

\* C6: a performOperation call with offlineSupport = false makes exactly one transport
\* call whatever isOnline is, and when that call fails it returns
\* {success: false, error}; no step of it changes the queue or the store.
C6_NoOfflineSupportNeverQueues ==
  [][ \A call \in SeqRange(calls') :
        ~call.offlineSupport =>
          /\ transportCalls'[call.operationId] = 1
          /\ Started(call) =>
               /\ transportCalls[call.operationId] = 0
               /\ pendingOperations' = pendingOperations
               /\ storage' = storage
          /\ Resumed(call) =>
               /\ pendingOperations' = pendingOperations
               /\ storage' = storage
               /\ (call.pc = "returned" /\ AttemptFailed(call)) =>
                    /\ call.result.success = FALSE
                    /\ call.result.error # UNDEFINED
                    /\ call.result.queued = UNDEFINED ]_vars

\* A call made offline without offlineSupport has returned the failure of its one
\* transport call.
C6_Witness ==
  \E call \in SeqRange(calls) :
    /\ ~call.offlineSupport /\ ~call.online
    /\ call.pc = "returned"
    /\ AttemptFailed(call)
    /\ call.result.success = FALSE
    /\ transportCalls[call.operationId] = 1

\* C7: performOperation and syncPendingOperations do not end by throwing, whatever the
\* transport, the store and the mirror do: the promise of a call is not rejected and
\* resolves with a result, a pass whose transport call throws goes on with the next
\* operation, and a pass ends with syncInProgress reset.
C7_NothingThrown ==
  [][ /\ \A call \in SeqRange(calls') :
           /\ call.pc # "rejected"
           /\ call.pc = "returned" =>
                /\ call.result.success \in BOOLEAN
                /\ call.result # NoResult \/ call.result.success
      /\ (pass.pc = "transport" /\ pass'.pc # "transport") => pass'.pc = "delay"
      /\ (pass.pc = "save" /\ pass'.pc # "save") => pass' = IdlePass /\ ~syncInProgress'
    ]_vars

\* A call whose transport call threw and whose store write failed has returned.
C7_Witness ==
  \E call \in SeqRange(calls) :
    /\ call.outcome = "throw"
    /\ call.written = "false"
    /\ call.pc = "returned"
    /\ call.result.error = "Network error"

\* The transport attempts of the pass, in the order they were made.
Attempts(log) == SelectSeq(log, LAMBDA e : e.what = "attempt")

\* high before medium before low
C8_Rank(priority) ==
  CASE priority = "high" -> 0 [] priority = "medium" -> 1 [] priority = "low" -> 2

\* The operation as it was in the queue when the pass took its snapshot.
C8_AtStart(id) == CHOOSE op \in SeqRange(pass.sorted) : op.id = id

\* C8: the transport attempts of one pass are made in non-decreasing priority rank
\* and, for equal priority, in ascending order of the timestamps the operations had
\* when the pass started.
C8_AttemptsInPriorityOrder ==
  LET a == Attempts(pass.log)
  IN \A i \in 1..Len(a), j \in 1..Len(a) :
       i < j =>
         \/ C8_Rank(a[i].priority) < C8_Rank(a[j].priority)
         \/ /\ C8_Rank(a[i].priority) = C8_Rank(a[j].priority)
            /\ C8_AtStart(a[i].id).timestamp <= C8_AtStart(a[j].id).timestamp

\* Operations queued as low (101), high (102), medium (103) have been attempted as
\* high, medium, low.
C8_Witness ==
  LET a == Attempts(pass.log)
  IN /\ Len(a) = 3
     /\ <<a[1].id, a[2].id, a[3].id>> = <<102, 103, 101>>
     /\ <<a[1].priority, a[2].priority, a[3].priority>> = <<"high", "medium", "low">>

\* 1000 * 2^k for 0 < k < 5
C9_Delay(k) == CASE k = 1 -> 2000 [] k = 2 -> 4000 [] k = 3 -> 8000 [] k = 4 -> 16000

\* The entries the step adds to the log of the pass.
C9_Logged ==
  IF Len(pass'.log) > Len(pass.log)
  THEN {pass'.log[k] : k \in (Len(pass.log) + 1)..Len(pass'.log)}
  ELSE {}

C10_SecondCallWithinIntervalIsNoOp ==
  [][ ( /\ lastSync' # NoSync
        /\ lastPassStart >= 0
        /\ clock - lastPassStart < 5000 ) =>
          /\ lastSync' # "started"
          /\ transportCalls' = transportCalls
          /\ pendingOperations' = pendingOperations
          /\ storage' = storage
          /\ lastSyncAttempt' = lastSyncAttempt
          /\ pass' = pass ]_vars

\* A call 4999 ms after the start of a pass that is over has returned at the rate
\* limit, with operations still in the queue.
C10_Witness ==
  /\ lastSync = "rateLimited"
  /\ clock - lastPassStart = 4999
  /\ ~syncInProgress
  /\ Len(pendingOperations) > 0

\* C11: one pass runs at a time.  A pass starts only while syncInProgress is false; a
\* trigger (connectivity event, manualSync, direct call) that comes while
\* syncInProgress is true returns without starting a pass and without touching the
\* running one, and the end of a pass runs nothing that was asked for meanwhile.
C11_OnePassAtATime ==
  [][ /\ lastSync' = "started" => (~syncInProgress /\ pass.pc = "idle")
      /\ (syncInProgress /\ lastSync' # NoSync) =>
           /\ lastSync' \in {"inProgress", "offline"}
           /\ pass' = pass
           /\ syncInProgress'
           /\ transportCalls' = transportCalls
           /\ pendingOperations' = pendingOperations
           /\ lastSyncAttempt' = lastSyncAttempt
      /\ (syncInProgress /\ ~syncInProgress') =>
           /\ pass.pc = "save" /\ pass' = IdlePass
           /\ transportCalls' = transportCalls
           /\ lastSync' = NoSync
      /\ syncInProgress' <=> pass'.pc # "idle" ]_vars

\* A trigger has come, past the rate limit, while the pass waits for its transport
\* call, and has been dropped at the flag.
C11_Witness ==
  /\ lastSync = "inProgress"
  /\ pass.pc = "transport"
  /\ isOnline
  /\ clock - lastSyncAttempt >= 5000

\* C12: every change of isOnline from false to true starts a pass, and a change from
\* true to false starts none.  Stated for the changes that the listener makes while
\* no pass runs and the queue holds an operation (the change that the answer of the
\* initial NetInfo.fetch() makes calls nothing at all).
C12_OnlineEdgeStartsPass ==
  [][ /\ ( /\ ~isOnline /\ isOnline'
           /\ fetching' = fetching
           /\ ~syncInProgress
           /\ Len(pendingOperations) > 0 ) => lastSync' = "started"
      /\ (isOnline /\ ~isOnline') => lastSync' # "started" ]_vars

\* C13: the server applies an operation that was passed to performOperation at most
\* once.
C13_AppliedAtMostOnce == \A id \in OperationIds : applied[id] <= 1

\* The sequence the store holds: none under a key that was never written.
StoredOperations == IF storage.isNull THEN << >> ELSE storage.ops

\* What C14 compares of an operation: which one it is, and its retry state.
C14_RetryState(ops) ==
  [k \in 1..Len(ops) |->
     [id |-> ops[k].id, retryCount |-> ops[k].retryCount, timestamp |-> ops[k].timestamp]]

\* C14: when the startup load is over, no performOperation call and no pass is under
\* way and no store request has failed, the store holds the operations of the
\* in-memory queue in the same order with the same retryCount and timestamp.
C14_StoreEqualsQueue ==
  ( /\ ~loading.pending
    /\ \A call \in SeqRange(calls) : call.pc \in {"returned", "rejected"}
    /\ pass.pc = "idle"
    /\ ~storeFailed )
  => C14_RetryState(StoredOperations) = C14_RetryState(pendingOperations)

\* C15: when the transport call answered 2xx, a syncTarget was given and the update of
\* the local mirror fails, performOperation still returns {success: true, data} and
\* the operation is not put into the queue: the step at which the call comes back
\* from updateLocalMirror, updated or not, returns that result and leaves the queue
\* and the store alone.
C15_MirrorFailureStillSucceeds ==
  [][ \A call \in SeqRange(calls') :
        ( /\ Resumed(call)
          /\ Before(call).pc = "mirror" ) =>
            /\ call.pc = "returned"
            /\ call.result.success = TRUE
            /\ call.result.data = "data"
            /\ call.result.error = "undefined"
            /\ call.result.queued = "undefined"
            /\ ~call.enqueued
            /\ call.operationId \notin Ids(pendingOperations')
            /\ pendingOperations' = pendingOperations
            /\ storage' = storage ]_vars

\* A call with a syncTarget got a 2xx answer, the mirror update failed, and the call
\* has returned success with nothing queued.
C15_Witness ==
  \E call \in SeqRange(calls) :
    /\ call.mirror = "failed"
    /\ call.outcome = "response" /\ call.status = 200
    /\ call.offlineSupport
    /\ call.pc = "returned"
    /\ call.result.success /\ call.result.data = "data"
    /\ call.operationId \notin Ids(pendingOperations)

\* The step at which loadPendingOperations assigns the queue it parsed, the store
\* holding at that time what it held when the constructor asked for it, and no
\* request to the store having failed.
C16_Loads ==
  /\ loading.pending /\ ~loading'.pending
  /\ ~loading.value.isNull
  /\ loading.value = storage
  /\ ~storeFailed'

C16_DefinedKeys(body) == SelectSeq(body, LAMBDA kv : kv[2] # "undefined")

C17_AtStart(id) == CHOOSE op \in SeqRange(pass.sorted) : op.id = id

\* C17: the store never holds a queue that shows a part of a pass.  Whatever is
\* written to the store while a pass is between its start and its end-of-pass save
\* holds the operations of the snapshot with the retryCount and timestamp they had
\* when the pass started, and holds no operation that the pass has sent
\* successfully.
C17_NoPartialPassInStore ==
  [][ ( /\ pass.pc \in {"transport", "delay"}
        /\ pass'.pc = pass.pc
        /\ storage' # storage ) =>
          \A k \in 1..Len(storage'.ops) :
            LET op == storage'.ops[k]
            IN /\ op.id \notin SeqRange(pass.successfulOperations)
               /\ op.id \in Ids(pass.sorted) =>
                    /\ op.retryCount = C17_AtStart(op.id).retryCount
                    /\ op.timestamp = C17_AtStart(op.id).timestamp ]_vars

\* C18: an operation that a performOperation call queues while a pass is suspended
\* is not in the snapshot of that pass, so the pass makes no transport call for it
\* and its end-of-pass filter keeps it, and it is in the snapshot of the next pass.
\* In steps, with the startup load over:
\*  - the snapshot of a pass is the whole queue at its start and has the same
\*    operations until the pass ends;
\*  - a transport call is made for an operation either by its own performOperation
\*    call as that starts, or by the pass for the element of the snapshot it is at;
\*  - an operation leaves the queue only in the end-of-pass filter of a pass that
\*    has it in its snapshot, and stays as it is while it is in no snapshot.
C18_EnqueuedMidPassWaitsForNextPass ==
  [][ /\ lastSync' = "started" =>
           /\ Ids(pass'.sorted) = Ids(pendingOperations)
           /\ Len(pass'.sorted) = Len(pendingOperations)
           /\ Ids(pass'.operationsToProcess) = Ids(pendingOperations)
      /\ (pass.pc # "idle" /\ pass'.pc # "idle") =>
           /\ pass'.sorted = pass.sorted
           /\ Ids(pass'.operationsToProcess) = Ids(pass.sorted)
      /\ \A id \in OperationIds :
           transportCalls'[id] # transportCalls[id] =>
             \/ \E call \in CallsOf(id, calls') : Started(call)
             \/ /\ pass'.pc = "transport"
                /\ id \in Ids(pass'.sorted)
                /\ pass'.operationsToProcess[pass'.idx].id = id
      /\ ~loading.pending =>
           \A k \in 1..Len(pendingOperations) :
             LET op == pendingOperations[k]
             IN /\ op.id \notin Ids(pendingOperations') =>
                     /\ pass.pc \in {"transport", "delay"} \/ lastSync' = "started"
                     /\ pass'.pc = "save"
                     /\ op.id \in Ids(pass'.sorted)
                /\ (pass.pc # "idle" /\ op.id \notin Ids(pass.sorted)) =>
                     op \in SeqRange(pendingOperations') ]_vars

\* A pass over a snapshot that it made a transport call for has got to its
\* end-of-pass save, and an operation that a call queued while the pass ran, and
\* that is not in the snapshot, is in the queue.
C18_Witness ==
  /\ pass.pc = "save"
  /\ ~loading.pending
  /\ Len(pass.sorted) > 0
  /\ \E k \in 1..Len(pass.log) : pass.log[k].what = "attempt"
  /\ \E op \in SeqRange(pendingOperations) :
       /\ op.id \in 1..MaxCalls
       /\ op.id \notin Ids(pass.sorted)
       /\ op.retryCount = 0

\* C19: a pass that has started deals with every operation of its snapshot, by a
\* transport call, a backoff skip or the removal at the ceiling, before it ends,
\* whatever happens to the connectivity meanwhile.  A pass in its loop stays in the
\* loop or goes to its end-of-pass save, only from the save it ends, and when it
\* gets to the save the loop has dealt with the operations of the snapshot one by
\* one in the order of the snapshot, with a transport call for each attempt.
C19_PassRunsToCompletion ==
  [][ /\ pass.pc \in {"transport", "delay"} =>
           /\ pass'.pc \in {"transport", "delay", "save"}
           /\ syncInProgress'
           /\ Len(pass'.log) >= Len(pass.log)
           /\ SubSeq(pass'.log, 1, Len(pass.log)) = pass.log
      /\ (pass.pc # "idle" /\ pass'.pc = "idle") => pass.pc = "save"
      /\ (pass'.pc = "transport" /\ pass.pc # "transport") =>
           /\ pass'.idx = Len(pass'.log)
           /\ pass'.log[pass'.idx].what = "attempt"
           /\ transportCalls'[pass'.log[pass'.idx].id] =
                transportCalls[pass'.log[pass'.idx].id] + 1
      /\ pass'.pc = "save" =>
           /\ Len(pass'.log) = Len(pass'.sorted)
           /\ \A k \in 1..Len(pass'.sorted) :
                /\ pass'.log[k].id = pass'.sorted[k].id
                /\ pass'.log[k].what \in {"attempt", "backoff", "ceiling"}
                /\ pass'.log[k].what = "ceiling" => pass'.log[k].retryCount >= 5
                /\ pass'.log[k].what = "backoff" => pass'.log[k].retryCount > 0 ]_vars

\* The device is offline and a pass over two operations has made a transport call
\* for each of them and is at its end-of-pass save.
C19_Witness ==
  /\ pass.pc = "save"
  /\ ~isOnline
  /\ Len(pass.sorted) = 2
  /\ Len(pass.log) = 2
  /\ pass.log[1].what = "attempt" /\ pass.log[2].what = "attempt"
  /\ transportCalls[pass.sorted[2].id] >= 1

\* The operation of the queue with the id.
C20_Item(queue, id) == CHOOSE op \in SeqRange(queue) : op.id = id

\* In this step the transport call that the pass made for the operation with the id
\* comes back and is not counted as a success: an error status, or an error thrown.
C20_SyncAttemptFails(id) ==
  /\ pass.pc = "transport"
  /\ pass.operationsToProcess[pass.idx].id = id
  /\ pass'.pc = "delay"
  /\ pass'.successfulOperations = pass.successfulOperations

\* C20: an operation comes into the queue with retryCount 0 (the startup load apart,
\* which brings operations back as they were saved); while it is in the
\* queue its retryCount never goes down, and retryCount and timestamp change only
\* together, retryCount by one and timestamp to the time at which the running pass
\* started, in exactly the steps in which a transport call of the pass for the
\* operation fails.
C20_RetryCountCountsFailedSyncAttempts ==
  [][ \A id \in OperationIds :
        /\ ( /\ id \in Ids(pendingOperations') /\ id \notin Ids(pendingOperations)
             /\ loading'.pending = loading.pending ) =>
             C20_Item(pendingOperations', id).retryCount = 0
        /\ (id \in Ids(pendingOperations') /\ id \in Ids(pendingOperations)) =>
             LET old == C20_Item(pendingOperations, id)
                 new == C20_Item(pendingOperations', id)
             IN /\ new.retryCount >= old.retryCount
                /\ IF C20_SyncAttemptFails(id)
                   THEN /\ new.retryCount = old.retryCount + 1
                        /\ new.timestamp = lastPassStart
                        /\ new.timestamp = pass.now
                   ELSE /\ new.retryCount = old.retryCount
                        /\ new.timestamp = old.timestamp
        /\ (id \in Ids(pendingOperations) /\ C20_SyncAttemptFails(id)) =>
             id \in Ids(pendingOperations') ]_vars

\* An operation that a call queued has failed in two passes and carries the start
\* time of the second one.
C20_Witness ==
  \E op \in SeqRange(pendingOperations) :
    /\ op.id \in 1..MaxCalls
    /\ op.retryCount = 2
    /\ op.timestamp = StartTime + 5000
    /\ transportCalls[op.id] >= 2

\* The operation with the id in a sequence of operations.
C21_Item(ops, id) == CHOOSE op \in SeqRange(ops) : op.id = id

\* C21: a pass changes neither the id, endpoint, method, body nor priority of an
\* operation in the queue, and an operation that the pass has skipped for backoff
\* is in the queue, through the end-of-pass filter as well, with every field as it
\* was when the pass started.
C21_PassLeavesOperationsAlone ==
  [][ /\ \A id \in Ids(pendingOperations) \cap Ids(pendingOperations') :
           LET old == C21_Item(pendingOperations, id)
               new == C21_Item(pendingOperations', id)
           IN /\ new.endpoint = old.endpoint
              /\ new.method = old.method
              /\ new.body = old.body
              /\ new.priority = old.priority
              /\ Cardinality({k \in 1..Len(pendingOperations') :
                                pendingOperations'[k].id = id}) = 1
      /\ \A k \in 1..Len(pass'.log) :
           pass'.log[k].what = "backoff" =>
             /\ pass'.log[k].id \in Ids(pendingOperations')
             /\ C21_Item(pendingOperations', pass'.log[k].id)
                  = C21_Item(pass'.sorted, pass'.log[k].id)
             /\ C21_Item(pendingOperations', pass'.log[k].id).retryCount
                  = pass'.log[k].retryCount
             /\ C21_Item(pendingOperations', pass'.log[k].id).timestamp
                  = pass'.log[k].timestamp ]_vars

\* A pass has skipped operation 102 (retryCount 2, failed 1000 ms before) for
\* backoff after its attempt for 101 failed, and has done its end-of-pass filter:
\* 102 is in the queue as it was, 101 with its retryCount raised.
C21_Witness ==
  /\ pass.pc = "save"
  /\ \E k \in 1..Len(pass.log) :
       /\ pass.log[k].what = "backoff"
       /\ pass.log[k].id = 102
       /\ pass.log[k].retryCount = 2
       /\ k > 1
  /\ pass.log[1].what = "attempt" /\ pass.log[1].id = 101
  /\ 102 \in Ids(pendingOperations)
  /\ 101 \in Ids(pendingOperations)
  /\ C21_Item(pendingOperations, 101).retryCount
       = C21_Item(pass.sorted, 101).retryCount + 1
  /\ C21_Item(pendingOperations, 102).timestamp = pass.now - 1000

\* A call whose push was followed by a failed write to the store.
C22_WriteFailed(call) == call.enqueued /\ call.written = "false"

\* The result of a call that has queued its operation, by the path it took.
C22_Result(call) ==
  IF call.path = "offline"
  THEN [success |-> FALSE, data |-> "undefined", error |-> "undefined", queued |-> "true"]
  ELSE [success |-> FALSE, data |-> "undefined",
        error |-> IF call.outcome = "throw" THEN "Network error" ELSE "Server error",
        queued |-> "undefined"]

\* C22: when the write to the store fails while performOperation queues an
\* operation, the operation is in the in-memory queue all the same and stays there,
\* the call returns what it returns after a write that succeeded, and the passes of
\* the session take the operation into their snapshot and make a transport call for
\* it, until one of them removes it as sent or as failed at the ceiling.
C22_FailedWriteKeepsOperation ==
  [][ \A call \in SeqRange(calls') :
        /\ (call.enqueued /\ (Started(call) \/ ~Before(call).enqueued)) =>
             /\ call.pc = "save"
             /\ call.operationId \in Ids(pendingOperations')
             /\ call.operationId \notin Ids(pendingOperations)
        /\ (call.enqueued /\ Resumed(call) /\ Before(call).enqueued) =>
             /\ call.pc = "returned"
             /\ call.result = C22_Result(call)
             /\ pendingOperations' = pendingOperations
        /\ (C22_WriteFailed(call) /\ call.operationId \in Ids(pendingOperations)) =>
             /\ \/ call.operationId \in Ids(pendingOperations')
                \/ /\ pass'.pc = "save"
                   /\ call.operationId \in Ids(pass'.sorted)
                   /\ \/ call.operationId \in SeqRange(pass'.successfulOperations)
                      \/ call.operationId \in SeqRange(pass'.failedOperations)
             /\ lastSync' = "started" => call.operationId \in Ids(pass'.sorted)
        /\ ( /\ C22_WriteFailed(call)
             /\ pass'.pc = "save"
             /\ call.operationId \in Ids(pass'.sorted) ) =>
             \E k \in 1..Len(pass'.log) :
               /\ pass'.log[k].id = call.operationId
               /\ pass'.log[k].retryCount = 0 => pass'.log[k].what = "attempt" ]_vars

\* A call made offline has queued its operation, the write to the store failed, the
\* call returned {success: false, queued: true}, and a later pass has made a
\* transport call for the operation.
C22_Witness ==
  \E call \in SeqRange(calls) :
    /\ call.enqueued /\ call.written = "false"
    /\ call.path = "offline"
    /\ call.pc = "returned"
    /\ call.result.queued = "true"
    /\ transportCalls[call.operationId] = 1
    /\ call.operationId \in Ids(pass.sorted)
    /\ call.operationId \notin Ids(StoredOperations)
    /\ \E k \in 1..Len(pass.log) :
         pass.log[k].id = call.operationId /\ pass.log[k].what = "attempt"

\* C23: once a handler has run for a state of NetInfo, in the listener or for the
\* answer of the initial fetch, isOnline is true exactly when that state, the last
\* one handled, has isConnected true and isInternetReachable not false: a
\* reachability that is not known counts as online, a connection that is not known
\* as offline.  Before the first state is handled isOnline is true, and isOnline
\* changes in no other step of a running instance.
C23_OnlineFollowsLastReport ==
  [][ /\ netState'.isConnected # "none" =>
           ( isOnline' <=> /\ netState'.isConnected = "true"
                           /\ netState'.isInternetReachable \in {"true", "null"} )
      /\ netState'.isConnected = "none" => isOnline'
      /\ (isOnline' # isOnline /\ restarts' = restarts) =>
           /\ netState' # netState
           /\ netState'.isConnected # "none" ]_vars

\* The listener has run for a connected state whose reachability is not known, with
\* the device offline before: isOnline is true and a pass has started.
C23_Witness ==
  /\ netState = [isConnected |-> "true", isInternetReachable |-> "null"]
  /\ isOnline
  /\ lastSync = "started"
  /\ ~fetching

\* C24: a call of syncPendingOperations returns at the first of its guards that
\* applies, in the order pass in progress, device offline, rate limit; when it
\* returns at one of the first two it makes no transport call, leaves the queue
\* with the retryCount and timestamp of every operation, the store and the running
\* pass as they are, and leaves lastSyncAttempt as it is, so that the 5000 ms of the
\* rate limit still count from the last pass that started.
C24_GuardsInOrderAndNoOp ==
  [][ /\ lastSync' # "none" =>
           lastSync' = IF syncInProgress THEN "inProgress"
                       ELSE IF ~isOnline' THEN "offline"
                       ELSE IF clock - lastSyncAttempt < 5000 THEN "rateLimited"
                       ELSE "started"
      /\ lastSync' \in {"inProgress", "offline"} =>
           /\ transportCalls' = transportCalls
           /\ pendingOperations' = pendingOperations
           /\ storage' = storage
           /\ lastSyncAttempt' = lastSyncAttempt
           /\ syncInProgress' = syncInProgress
           /\ pass' = pass
           /\ clock' = clock
      /\ lastSyncAttempt' # lastSyncAttempt =>
           /\ lastSync' = "started"
           /\ lastSyncAttempt' = clock ]_vars

\* A call made while the device is offline, 5000 ms after the last pass was started
\* and with an operation in the queue, has returned at the offline guard, and
\* lastSyncAttempt is still the start of that pass.
C24_Witness ==
  /\ lastSync = "offline"
  /\ ~isOnline
  /\ ~syncInProgress
  /\ Len(pendingOperations) > 0
  /\ lastPassStart >= 0
  /\ lastSyncAttempt = lastPassStart
  /\ clock - lastSyncAttempt >= 5000

\* C25: an operation for which a transport call of a pass has come back with a 2xx
\* status is not passed to the transport again, neither by the running instance nor
\* after the application was terminated and started again.  Stated for runs in
\* which no request to the store fails.
C25_NotSentAgainAfterSuccess ==
  [][ ~storeFailed' =>
        \A id \in synced : transportCalls'[id] = transportCalls[id] ]_vars

\* C26: the startup load loses no work.  When loadPendingOperations comes back with
\* the stored queue, no request to the store having failed, the in-memory queue
\* holds the operations that were in it before (those that calls queued meanwhile)
\* as well as the operations that were read from the store, and the store still
\* holds the operations that were read from it.
C26_LoadLosesNothing ==
  [][ ( /\ loading.pending /\ ~loading'.pending
        /\ ~storeFailed' ) =>
          /\ Ids(pendingOperations) \subseteq Ids(pendingOperations')
          /\ Ids(loading.value.ops) \subseteq Ids(pendingOperations')
          /\ Ids(loading.value.ops) \subseteq Ids(storage'.ops) ]_vars

\* C27: operations of the same priority are attempted in the order in which they
\* were queued, and the later one waits for the earlier one: when a pass makes a
\* transport call for an operation B, every operation A of the same priority that
\* was queued before B (both never retried, so that their timestamps are the times
\* at which they were queued) has been sent successfully or is off the queue.
C27_LaterWaitsForEarlier ==
  [][ (pass'.pc = "transport" /\ transportCalls' # transportCalls) =>
        LET B == pass'.sorted[pass'.idx]
        IN \A k \in 1..Len(pass'.sorted) :
             LET A == pass'.sorted[k]
             IN ( /\ A.retryCount = 0 /\ B.retryCount = 0
                  /\ A.priority = B.priority
                  /\ A.timestamp < B.timestamp ) =>
                  \/ A.id \in SeqRange(pass'.successfulOperations)
                  \/ A.id \notin Ids(pendingOperations') ]_vars

\* C28: the retryCount of an operation is raised only for a transport call whose
\* request was really sent to the server.
C28_RetryCountCountsSentRequests ==
  [][ \A id \in Ids(pendingOperations) \cap Ids(pendingOperations') :
        LET old == CHOOSE op \in SeqRange(pendingOperations) : op.id = id
            new == CHOOSE op \in SeqRange(pendingOperations') : op.id = id
        IN new.retryCount > old.retryCount => pass'.sent ]_vars

\* C29: while the device stays online, the calls of the passes come back and
\* triggers keep coming at least 5000 ms apart, every operation that is in the
\* queue leaves it in the end, sent or failed at the ceiling: none is skipped for
\* backoff for ever.
C29_EveryOperationLeavesTheQueue ==
  \A id \in {101, 102} :
    (id \in Ids(pendingOperations)) ~> (id \notin Ids(pendingOperations))

\* Operation 101 has failed in five passes, waiting out the backoff delays between
\* them, and has left the queue at the ceiling, 40000 ms or more after the first.
C29_Witness ==
  /\ pendingOperations = << >>
  /\ transportCalls[101] = 5
  /\ 101 \notin synced
  /\ clock - StartTime >= 40000
  /\ pass.pc = "idle"

\* C30: a pass that has started makes its transport calls one snapshot element
\* after the other, going forward only, so at most one for each element of the
\* snapshot; the flag syncInProgress is set exactly while the pass is under way;
\* and, its transport calls, delays and store write coming back, whether they
\* succeed, fail or throw, the pass ends and the flag is reset.
C30_PassTerminatesAndResetsFlag ==
  /\ [][ /\ transportCalls' # transportCalls =>
              /\ pass'.pc = "transport"
              /\ pass'.idx \in 1..Len(pass'.sorted)
              /\ pass'.idx > (IF pass.pc = "idle" THEN 0 ELSE pass.idx)
              /\ pass.pc # "idle" => pass'.sorted = pass.sorted
              /\ transportCalls' =
                   [transportCalls EXCEPT ![pass'.sorted[pass'.idx].id] = @ + 1]
         /\ syncInProgress' <=> pass'.pc \in {"transport", "delay", "save"} ]_vars
  /\ syncInProgress ~> ~syncInProgress

\* A pass over a snapshot of two operations has made one transport call for each,
\* both failed or threw (they are still queued, stamped by this pass), and the
\* pass has ended with the flag reset.
C30_Witness ==
  /\ ~syncInProgress
  /\ pass.pc = "idle"
  /\ lastPassStart = clock
  /\ transportCalls[101] = 2
  /\ transportCalls[102] = 1
  /\ Len(pendingOperations) = 2
  /\ \A op \in SeqRange(pendingOperations) :
       op.timestamp = clock /\ op.retryCount = (IF op.id = 101 THEN 2 ELSE 3)
=============================================================================
